---- MODULE Spec2Model ----
(***************************************************************************)
(* Model of veebot's error envelope (src/veebot/src/error.rs) and of the   *)
(* GET/JSON extension of the HTTP client (src/veebot/src/util.rs).         *)
(*                                                                         *)
(* One command is in flight at a time.  A command either fails in domain   *)
(* code (Error::from on some ErrorKind) or runs send_get_json_request,     *)
(* whose three await points (send, text, json) are separate steps.  The    *)
(* framework then renders an error with create_msg and discards the        *)
(* result.  The tracing sink is the sequence 'log'.                        *)
(***************************************************************************)
EXTENDS Integers, Sequences, FiniteSets, TLC

VARIABLES
    pc,        \* position of the command: idle, send, text, json, done, failed
    req_url,   \* the url the call was given, or NoUrl
    elapsed,   \* seconds since the request was started (client timer)
    res,       \* the reqwest::Response received by the call, or NoResponse
    io,        \* outcome of the awaits of the call: [send, read]
    steps,     \* what the call has done so far: send, status, text, json
    sent,      \* GET requests issued by the call
    logMark,   \* Len(log) when the command started
    result,    \* crate::Result of the command: None, Ok(value) or Err(envelope)
    log,       \* events emitted through tracing::error!
    rendered   \* embeds created by create_msg for the current result

vars == <<pc, req_url, elapsed, res, io, steps, sent, logMark, result, log, rendered>>

----------------------------------------------------------------------------
(* Bounds of the model *)

MaxLog == 2        \* events the log may hold before no further command starts
MaxRenders == 2    \* times the framework renders one envelope
TickSecs == 15     \* granularity of the clock

(* Program constants *)

TimeoutSecs == 30
ConnectTimeoutSecs == 30

----------------------------------------------------------------------------
(* Inputs *)

\* nanoid::nanoid!(6): six random characters; nothing keeps two ids apart
Ids == {"V1StGX", "a_9xQz"}

\* the url a call is given (the query is empty)
Urls == { [scheme |-> "https", host |-> "www.googleapis.com",
           path |-> "/youtube/v3/search"] }

\* response statuses the endpoint may answer with
StatusCodes == {101, 200, 304, 404, 500}

\* response bodies the endpoint may answer with
Bodies == {"not found", "{\"n\":1}", "[]"}

\* causes of a failing await on the connection, besides the timeout
SendFailures == {"connect"}
ReadFailures == {"body"}

Min(a, b) == IF a < b THEN a ELSE b

----------------------------------------------------------------------------
(* ErrorKind: one constructor per variant, the payload in named fields *)

TrackIndexOutOfBounds(index, available) ==
    [variant |-> "TrackIndexOutOfBounds", index |-> index, available |-> available]
NoActiveTrack == [variant |-> "NoActiveTrack"]
UserNotInGuild == [variant |-> "UserNotInGuild"]
ParseInt(arg) == [variant |-> "ParseInt", arg |-> arg]
ParseArg(arg) == [variant |-> "ParseArg", arg |-> arg]
CommaInImageTag(input) == [variant |-> "CommaInImageTag", input |-> input]
UserNotInVoiceChanel == [variant |-> "UserNotInVoiceChanel"]
JoinVoiceChannel(channel) == [variant |-> "JoinVoiceChannel", channel |-> channel]
AudioStart(discord) == [variant |-> "AudioStart", discord |-> discord]
UnknownDiscord(discord) == [variant |-> "UnknownDiscord", discord |-> discord]
SendRequest(source) == [variant |-> "SendRequest", source |-> source]
GetRequest(status, body) == [variant |-> "GetRequest", status |-> status, body |-> body]
UnexpectedJsonShape(source) == [variant |-> "UnexpectedJsonShape", source |-> source]
YtVidNotFound(query) == [variant |-> "YtVidNotFound", query |-> query]
YtInferVideoId(url) == [variant |-> "YtInferVideoId", url |-> url]

\* the kinds domain code (commands, the YouTube search) raises: values of each
\* variant that is not produced by send_get_json_request
DomainKinds ==
    { TrackIndexOutOfBounds(3, <<0, 2>>), NoActiveTrack, UserNotInGuild,
      ParseInt("Eos"), ParseArg("Eos"), CommaInImageTag("a,b"),
      UserNotInVoiceChanel, JoinVoiceChannel(<<>>),
      JoinVoiceChannel(<<"general">>), AudioStart("no voice manager"),
      UnknownDiscord("no voice manager"), YtVidNotFound("cats"),
      YtInferVideoId([scheme |-> "https", host |-> "youtu.be", path |-> "/"]) }

\* is_user_error with the NoActiveTrack arm left out of the user errors
is_user_error_mut_NoActiveTrack(kind) ==
    kind.variant \in { "TrackIndexOutOfBounds", "UserNotInGuild", "ParseInt",
                       "ParseArg", "CommaInImageTag", "UserNotInVoiceChanel" }

\* the match of Error::from: TRUE for the expected (user) errors
is_user_error(kind) ==
    CASE kind.variant \in { "TrackIndexOutOfBounds", "UserNotInGuild", "ParseInt",
                            "ParseArg", "CommaInImageTag", "UserNotInVoiceChanel",
                            "NoActiveTrack" } -> TRUE
      [] kind.variant \in { "JoinVoiceChannel", "AudioStart", "UnknownDiscord",
                            "SendRequest", "GetRequest", "UnexpectedJsonShape",
                            "YtVidNotFound", "YtInferVideoId" } -> FALSE

\* ErrorKind::title
title(kind) ==
    CASE kind.variant = "NoActiveTrack" -> "Invalid command error"
      [] kind.variant = "UserNotInGuild" -> "Not in a guild error"
      [] kind.variant \in { "ParseArg", "ParseInt", "CommaInImageTag",
                            "TrackIndexOutOfBounds" } -> "Invalid argument error"
      [] kind.variant = "UserNotInVoiceChanel" -> "Not in a voice channel error"
      [] kind.variant = "JoinVoiceChannel" -> "Permissions error"
      [] kind.variant \in { "AudioStart", "UnknownDiscord" } -> "Internal error"
      [] kind.variant = "SendRequest" -> "Send request error"
      [] kind.variant \in { "GetRequest", "UnexpectedJsonShape" } -> "HTTP error"
      [] kind.variant = "YtVidNotFound" -> "YouTube error"
      [] kind.variant = "YtInferVideoId" -> "Bad YouTube URL"

\* Display and Debug of reqwest::StatusCode
status_display(status) ==
    CASE status = 101 -> "101 Switching Protocols"
      [] status = 200 -> "200 OK"
      [] status = 304 -> "304 Not Modified"
      [] status = 404 -> "404 Not Found"
      [] status = 500 -> "500 Internal Server Error"

status_debug(status) ==
    CASE status = 101 -> "101"
      [] status = 200 -> "200"
      [] status = 304 -> "304"
      [] status = 404 -> "404"
      [] status = 500 -> "500"

\* Display of a usize
usize_display(n) ==
    CASE n = 0 -> "0"
      [] n = 1 -> "1"
      [] n = 2 -> "2"
      [] n = 3 -> "3"

\* Debug of a String: the text in quotes, with a quote or a backslash in it
\* escaped (no other text of the model holds a character Debug escapes)
str_debug(text) ==
    "\"" \o (CASE text = "{\"n\":1}" -> "{\\\"n\\\":1}"
               [] OTHER -> text) \o "\""

\* Debug of an Option at the first level of a {:#?} dump: None, or Some with
\* its content on a line of its own; an Option is <<>> or <<content>> here
option_pretty(is_some, content) ==
    IF is_some THEN "Some(\n        " \o content \o ",\n    )" ELSE "None"

\* Debug of Option<Range<usize>> as {:?} prints it; Some(a..b) is <<a, b>>
available_debug(available) ==
    IF available = <<>>
    THEN "None"
    ELSE "Some(" \o usize_display(available[1]) \o ".."
            \o usize_display(available[2]) \o ")"

available_pretty(available) ==
    IF available = <<>>
    THEN option_pretty(FALSE, "")
    ELSE option_pretty(TRUE, usize_display(available[1]) \o ".."
                                \o usize_display(available[2]))

\* Display and Debug of serenity's ArgError; "Eos" is ArgError::Eos
arg_display(arg) == CASE arg = "Eos" -> "ArgError(\"end of string\")"

arg_debug(arg) == CASE arg = "Eos" -> "Eos"

\* Display and Debug of serenity::Error::Other(text)
discord_display(text) == text

discord_pretty(text) == "Other(\n        " \o str_debug(text) \o ",\n    )"

\* Display and Debug of url::Url, held as its scheme, host and path; ind is
\* the indentation of the line the dump starts on
url_display(url) == url.scheme \o "://" \o url.host \o url.path

url_pretty(url, ind) ==
    "Url {\n" \o ind \o "    scheme: " \o str_debug(url.scheme)
        \o ",\n" \o ind \o "    cannot_be_a_base: false"
        \o ",\n" \o ind \o "    username: \"\""
        \o ",\n" \o ind \o "    password: None"
        \o ",\n" \o ind \o "    host: Some(\n" \o ind \o "        Domain(\n"
        \o ind \o "            " \o str_debug(url.host)
        \o ",\n" \o ind \o "        ),\n" \o ind \o "    )"
        \o ",\n" \o ind \o "    port: None"
        \o ",\n" \o ind \o "    path: " \o str_debug(url.path)
        \o ",\n" \o ind \o "    query: None"
        \o ",\n" \o ind \o "    fragment: None,\n" \o ind \o "}"

\* reqwest::Error: its kind, the url it carries (<<>> or <<url>>) and its
\* source, which is reqwest's TimedOut, an error of hyper or one of serde_json
TimedOut == [error |-> "TimedOut"]
hyper_error(hyper_kind) == [error |-> "hyper::Error", hyper_kind |-> hyper_kind]
serde_error(code, line, column) ==
    [error |-> "serde_json::Error", code |-> code, line |-> line,
     column |-> column]
reqwest_error(inner_kind, inner_url, inner_source) ==
    [inner_kind |-> inner_kind, inner_url |-> inner_url,
     inner_source |-> inner_source]

\* the error of a failed .send(): a Request error carrying the url
send_error(cause, request_url) ==
    reqwest_error("Request", <<request_url>>,
                  IF cause = "timeout" THEN TimedOut ELSE hyper_error("Connect"))

\* the error of a failed read of the response body: a Body error, no url
read_error(cause) ==
    reqwest_error("Body", <<>>,
                  IF cause = "timeout" THEN TimedOut
                  ELSE hyper_error("IncompleteMessage"))

\* the error of a body that serde_json rejects: a Decode error, no url
decode_error(serde) == reqwest_error("Decode", <<>>, serde)

\* Display of the source of a reqwest::Error
source_display(source) ==
    CASE source.error = "TimedOut" -> "operation timed out"
      [] source.error = "serde_json::Error" ->
            source.code \o " at line " \o usize_display(source.line)
                \o " column " \o usize_display(source.column)
      [] source.hyper_kind = "Connect" ->
            "error trying to connect: tcp connect error: Connection refused (os error 111)"
      [] source.hyper_kind = "IncompleteMessage" ->
            "connection closed before message completed"

\* Display of reqwest::Error: the sentence of its kind, its url, its source
reqwest_display(err) ==
    (CASE err.inner_kind = "Request" -> "error sending request"
       [] err.inner_kind = "Body" -> "request or response body error"
       [] err.inner_kind = "Decode" -> "error decoding response body")
        \o (IF err.inner_url = <<>> THEN ""
            ELSE " for url (" \o url_display(err.inner_url[1]) \o ")")
        \o ": " \o source_display(err.inner_source)

\* Debug of the source of a reqwest::Error, as a field of the struct at the
\* first level of a {:#?} dump
source_pretty(source) ==
    CASE source.error = "TimedOut" -> "TimedOut"
      [] source.error = "serde_json::Error" ->
            "Error(" \o str_debug(source.code) \o ", line: "
                \o usize_display(source.line) \o ", column: "
                \o usize_display(source.column) \o ")"
      [] source.hyper_kind = "Connect" ->
            "hyper::Error(\n            Connect,\n            ConnectError(\n"
                \o "                \"tcp connect error\",\n"
                \o "                Os {\n"
                \o "                    code: 111,\n"
                \o "                    kind: ConnectionRefused,\n"
                \o "                    message: \"Connection refused\",\n"
                \o "                },\n            ),\n        )"
      [] source.hyper_kind = "IncompleteMessage" ->
            "hyper::Error(\n            IncompleteMessage,\n        )"

\* Debug of the reqwest::Error a kind wraps, at the first level of a {:#?}
\* dump: the struct with its kind, its url when it carries one, its source
reqwest_pretty(err) ==
    "reqwest::Error {\n        kind: " \o err.inner_kind
        \o (IF err.inner_url = <<>> THEN ""
            ELSE ",\n        url: " \o url_pretty(err.inner_url[1], "        "))
        \o ",\n        source: " \o source_pretty(err.inner_source)
        \o ",\n    }"

\* #[error(...)] of each variant: the display sentence (a backquote of the
\* source is written ' here)
kind_display(kind) ==
    CASE kind.variant = "TrackIndexOutOfBounds" ->
            "Given track index '" \o usize_display(kind.index)
                \o "' is out of bounds, available range: "
                \o available_debug(kind.available)
      [] kind.variant = "NoActiveTrack" -> "No track is currently playing"
      [] kind.variant = "UserNotInGuild" ->
            "You are not in a discord server (guild) right now"
      [] kind.variant = "ParseInt" ->
            "Failed to parse an integer: " \o arg_display(kind.arg)
      [] kind.variant = "ParseArg" ->
            "Parsing the arguments finished with an error: "
                \o arg_display(kind.arg)
      [] kind.variant = "CommaInImageTag" ->
            "The specified image tags contain a comma (which is prohibited): "
                \o kind.input
      [] kind.variant = "UserNotInVoiceChanel" ->
            "You are not in a voice channel. You need to connect to one first so that I can understand which channel to join."
      [] kind.variant = "JoinVoiceChannel" ->
            "I cannot join the voice channel "
                \o (IF kind.channel = <<>> THEN "<unknown channel name>"
                    ELSE kind.channel[1])
      [] kind.variant = "AudioStart" ->
            "Falied to start streaming the audio: " \o discord_display(kind.discord)
      [] kind.variant = "UnknownDiscord" ->
            "Unknown discord error: " \o discord_display(kind.discord)
      [] kind.variant = "SendRequest" -> "Failed to send an http request"
      [] kind.variant = "GetRequest" ->
            "GET request has failed (http status code: "
                \o status_display(kind.status) \o "):\n" \o kind.body
      [] kind.variant = "UnexpectedJsonShape" ->
            "YouTube has returned an unexpected response JSON obejct"
      [] kind.variant = "YtVidNotFound" ->
            "Failed to find youtube video for \"" \o kind.query \o "\" query.)"
      [] kind.variant = "YtInferVideoId" ->
            "Could not infer YouTube video id from the url '"
                \o url_display(kind.url) \o "'"

\* #[derive(Debug)] of ErrorKind as {:#?} prints it: the variant name, then
\* each payload field on a line of its own, a nested value broken over lines
\* in its turn
kind_debug(kind) ==
    CASE kind.variant = "TrackIndexOutOfBounds" ->
            "TrackIndexOutOfBounds {\n    index: " \o usize_display(kind.index)
                \o ",\n    available: " \o available_pretty(kind.available)
                \o ",\n}"
      [] kind.variant \in { "NoActiveTrack", "UserNotInGuild",
                            "UserNotInVoiceChanel" } -> kind.variant
      [] kind.variant \in { "ParseInt", "ParseArg" } ->
            kind.variant \o "(\n    " \o arg_debug(kind.arg) \o ",\n)"
      [] kind.variant = "CommaInImageTag" ->
            "CommaInImageTag {\n    input: " \o str_debug(kind.input) \o ",\n}"
      [] kind.variant = "JoinVoiceChannel" ->
            "JoinVoiceChannel(\n    "
                \o (IF kind.channel = <<>>
                    THEN option_pretty(FALSE, "")
                    ELSE option_pretty(TRUE, str_debug(kind.channel[1])))
                \o ",\n)"
      [] kind.variant \in { "AudioStart", "UnknownDiscord" } ->
            kind.variant \o "(\n    " \o discord_pretty(kind.discord) \o ",\n)"
      [] kind.variant \in { "SendRequest", "UnexpectedJsonShape" } ->
            kind.variant \o "(\n    "
                \o reqwest_pretty(kind.source) \o ",\n)"
      [] kind.variant = "GetRequest" ->
            "GetRequest {\n    status: " \o status_debug(kind.status)
                \o ",\n    body: " \o str_debug(kind.body) \o ",\n}"
      [] kind.variant = "YtVidNotFound" ->
            "YtVidNotFound(\n    " \o str_debug(kind.query) \o ",\n)"
      [] kind.variant = "YtInferVideoId" ->
            "YtInferVideoId(\n    " \o url_pretty(kind.url, "    ") \o ",\n)"

----------------------------------------------------------------------------
(* Error: the envelope, and the event its construction logs *)

\* BacktracePolyfill::new(): the frames of the stack at the point of the call
Backtrace_new(site) == <<"Error::from", site>>

\* the struct literal of Error::from
new_error(kind, id, site) ==
    [id |-> id, backtrace |-> Backtrace_new(site), kind |-> kind]

\* the tracing::error! call of Error::from: the backtrace is a field of the
\* event only when the kind is not a user error
log_event(err) ==
    IF is_user_error(err.kind)
    THEN [level |-> "ERROR", id |-> err.id, kind |-> err.kind]
    ELSE [level |-> "ERROR", id |-> err.id, kind |-> err.kind,
          backtrace |-> err.backtrace]

None == [tag |-> "None"]
Ok(value) == [tag |-> "Ok", value |-> value]
Err(err) == [tag |-> "Err", err |-> err]

\* Error::from (also what crate::err! expands to): builds the envelope with a
\* fresh id, logs it, and hands it back as the command's error
Error_from(kind, site) ==
    \E id \in Ids :
        LET err == new_error(kind, id, site)
        IN  /\ result' = Err(err)
            /\ log' = Append(log, log_event(err))

\* create_msg leaving the id out of the description
create_msg_mut_no_id(err) ==
    [title |-> title(err.kind),
     description |-> kind_display(err.kind) \o "\n\nError id: **''**\n\n'''\n"
                        \o kind_debug(err.kind) \o "\n'''",
     color |-> <<167, 14, 37>>]

\* Error::create_msg: the embed set on the message (title, description and
\* colour; the thumbnail is a fixed URL)
create_msg(err) ==
    [title |-> title(err.kind),
     description |-> kind_display(err.kind) \o "\n\nError id: **'" \o err.id
                        \o "'**\n\n'''\n" \o kind_debug(err.kind) \o "\n'''",
     color |-> <<167, 14, 37>>]

----------------------------------------------------------------------------
(* reqwest: status classes, the body, the JSON deserializer *)

NoUrl == [scheme |-> "", host |-> "", path |-> ""]
NoResponse == [status |-> 0, body |-> ""]
NoIo == [send |-> "none", read |-> "none"]

\* StatusCode::is_client_error, StatusCode::is_server_error
is_client_error(status) == 400 <= status /\ status < 500

\* is_server_error that never answers TRUE
is_server_error_mut_never(status) == FALSE

is_server_error(status) == 500 <= status /\ status < 600

\* the branch on the status: TRUE when the call takes the error path
is_error_status(status) == is_client_error(status) \/ is_server_error(status)

\* collect_body dropping the sentence about the failed read
collect_body_mut_empty(read, text) ==
    IF read = "ok" THEN text ELSE ""

\* the match on res.text(): the text, or a sentence about the failed read
collect_body(read, text) ==
    IF read = "ok"
    THEN text
    ELSE "Could not collect the GET request body: "
            \o reqwest_display(read_error(read))

\* deserialize accepting every body, and deserialize rejecting every body
deserialize_mut_accepts(text) == [ok |-> TRUE, value |-> [n |-> 0]]

deserialize_mut_rejects(text) ==
    [ok |-> FALSE, error |-> serde_error("expected value", 1, 1)]

\* serde's deserialization of the body as T, here a struct { n: integer }
deserialize(text) ==
    CASE text = "{\"n\":1}" -> [ok |-> TRUE, value |-> [n |-> 1]]
      [] text = "[]" ->
            [ok |-> FALSE,
             error |-> serde_error(
                 "invalid length 0, expected struct T with 1 element", 1, 2)]
      [] text = "not found" ->
            [ok |-> FALSE, error |-> serde_error("expected ident", 1, 2)]
      [] OTHER -> [ok |-> FALSE, error |-> serde_error("expected value", 1, 1)]

\* the kind the map_err of .send() wraps its failure in
send_error_kind_mut_shape(source) == UnexpectedJsonShape(source)

send_error_kind(source) == SendRequest(source)

\* the kind the map_err of res.json() wraps its failure in
json_error_kind(source) == UnexpectedJsonShape(source)

\* the outcomes an await on the response body can have at this time
ReadOutcomes ==
    IF elapsed >= TimeoutSecs THEN {"timeout"} ELSE {"ok"} \cup ReadFailures

----------------------------------------------------------------------------
(* The state machine *)

Init ==
    /\ pc = "idle"
    /\ req_url = NoUrl
    /\ elapsed = 0
    /\ res = NoResponse
    /\ io = NoIo
    /\ steps = {}
    /\ sent = 0
    /\ logMark = 0
    /\ result = None
    /\ log = <<>>
    /\ rendered = <<>>

\* a command fails in domain code: crate::err!(...) on one of the kinds
Fail ==
    /\ pc = "idle"
    /\ Len(log) < MaxLog
    /\ \E kind \in DomainKinds : Error_from(kind, "command")
    /\ pc' = "failed"
    /\ logMark' = Len(log)
    /\ UNCHANGED <<req_url, elapsed, res, io, steps, sent, rendered>>

\* send_get_json_request is called: the GET request is built and sent
StartCall ==
    /\ pc = "idle"
    /\ Len(log) < MaxLog
    /\ pc' = "send"
    /\ elapsed' = 0
    /\ res' = NoResponse
    /\ io' = [send |-> "pending", read |-> "none"]
    /\ steps' = {"send"}
    /\ sent' = sent + 1
    /\ logMark' = Len(log)
    /\ \E request_url \in Urls : req_url' = request_url
    /\ UNCHANGED <<result, log, rendered>>

\* time passes while the call is suspended in an await
Tick ==
    /\ pc \in {"send", "text", "json"}
    /\ elapsed < TimeoutSecs
    /\ elapsed' = Min(elapsed + TickSecs, TimeoutSecs)
    /\ UNCHANGED <<req_url, pc, res, io, steps, sent, logMark, result, log, rendered>>

\* SendFails sending the request again instead of returning the error
SendFails_mut_retry ==
    /\ pc = "send"
    /\ \E cause \in (IF elapsed >= Min(ConnectTimeoutSecs, TimeoutSecs)
                     THEN {"timeout"} ELSE SendFailures) :
          io' = [io EXCEPT !.send = cause]
    /\ sent' = sent + 1
    /\ elapsed' = 0
    /\ UNCHANGED <<req_url, pc, res, steps, logMark, result, log, rendered>>

\* .send().await fails: the map_err and the ? return SendRequest
SendFails ==
    /\ pc = "send"
    /\ \E cause \in (IF elapsed >= Min(ConnectTimeoutSecs, TimeoutSecs)
                     THEN {"timeout"} ELSE SendFailures) :
          /\ io' = [io EXCEPT !.send = cause]
          /\ Error_from(send_error_kind(send_error(cause, req_url)),
                        "send_get_json_request")
    /\ pc' = "done"
    /\ UNCHANGED <<req_url, elapsed, res, steps, sent, logMark, rendered>>

\* .send().await yields a response: its status is read and picks the path
SendResponds ==
    /\ pc = "send"
    /\ elapsed < Min(ConnectTimeoutSecs, TimeoutSecs)
    /\ \E status \in StatusCodes, body \in Bodies :
          /\ res' = [status |-> status, body |-> body]
          /\ pc' = IF is_error_status(status) THEN "text" ELSE "json"
    /\ io' = [io EXCEPT !.send = "ok", !.read = "pending"]
    /\ steps' = steps \cup {"status"}
    /\ UNCHANGED <<req_url, elapsed, sent, logMark, result, log, rendered>>

\* the error path: res.text().await, then Err(GetRequest { status, body })
AwaitText ==
    /\ pc = "text"
    /\ \E read \in ReadOutcomes :
          /\ io' = [io EXCEPT !.read = read]
          /\ Error_from(GetRequest(res.status, collect_body(read, res.body)),
                        "send_get_json_request")
    /\ steps' = steps \cup {"text"}
    /\ pc' = "done"
    /\ UNCHANGED <<req_url, elapsed, res, sent, logMark, rendered>>

\* the other path: res.json().await, its failure wrapped by the map_err
AwaitJson ==
    /\ pc = "json"
    /\ \E read \in ReadOutcomes :
          /\ io' = [io EXCEPT !.read = read]
          /\ IF read = "ok"
             THEN LET parsed == deserialize(res.body)
                  IN  IF parsed.ok
                      THEN result' = Ok(parsed.value) /\ log' = log
                      ELSE Error_from(json_error_kind(decode_error(parsed.error)),
                                      "send_get_json_request")
             ELSE Error_from(json_error_kind(read_error(read)),
                             "send_get_json_request")
    /\ steps' = steps \cup {"json"}
    /\ pc' = "done"
    /\ UNCHANGED <<req_url, elapsed, res, sent, logMark, rendered>>

\* the framework renders the error of the command into a message
Render ==
    /\ pc \in {"done", "failed"}
    /\ result.tag = "Err"
    /\ Len(rendered) < MaxRenders
    /\ rendered' = Append(rendered, create_msg(result.err))
    /\ UNCHANGED <<req_url, pc, elapsed, res, io, steps, sent, logMark, result, log>>

\* the framework is done with the command and drops its result
Discard ==
    /\ pc \in {"done", "failed"}
    /\ pc' = "idle"
    /\ req_url' = NoUrl
    /\ elapsed' = 0
    /\ res' = NoResponse
    /\ io' = NoIo
    /\ steps' = {}
    /\ sent' = 0
    /\ logMark' = Len(log)
    /\ result' = None
    /\ rendered' = <<>>
    /\ UNCHANGED log

Next ==
    \/ Fail
    \/ StartCall
    \/ Tick
    \/ SendFails
    \/ SendResponds
    \/ AwaitText
    \/ AwaitJson
    \/ Render
    \/ Discard

Spec == Init /\ [][Next]_vars

----------------------------------------------------------------------------
(* What the claims speak of *)

\* the classification table of the specification
UserClassified ==
    { "TrackIndexOutOfBounds", "NoActiveTrack", "UserNotInGuild", "ParseInt",
      "ParseArg", "CommaInImageTag", "UserNotInVoiceChanel" }
InternalClassified ==
    { "JoinVoiceChannel", "AudioStart", "UnknownDiscord", "SendRequest",
      "GetRequest", "UnexpectedJsonShape", "YtVidNotFound", "YtInferVideoId" }

\* the bodies that are JSON documents of the expected type T, and their values
MatchesT == { "{\"n\":1}" }
ValueOf(text) == CASE text = "{\"n\":1}" -> [n |-> 1]

\* send_get_json_request has returned, having received a response
Responded == pc = "done" /\ io.send = "ok"
Failed == result.tag = "Err"
FailedAs(variant) == result.tag = "Err" /\ result.err.kind.variant = variant
SourceOf(kind) == kind.source.inner_source.error
ReadFailureText(read) ==
    "Could not collect the GET request body: request or response body error: "
        \o (IF read = "timeout" THEN "operation timed out"
            ELSE "connection closed before message completed")

\* C1: a 4xx/5xx response makes the call fail with GetRequest carrying the
\* status of the response; the body is the response text when it could be
\* read and a sentence describing the read failure when it could not.
C1_ErrorStatusGivesGetRequest ==
    (Responded /\ 400 <= res.status /\ res.status <= 599) =>
        /\ FailedAs("GetRequest")
        /\ result.err.kind.status = res.status
        /\ io.read = "ok" => result.err.kind.body = res.body
        /\ io.read # "ok" => result.err.kind.body = ReadFailureText(io.read)

C1_Witness ==
    /\ Responded
    /\ res = [status |-> 404, body |-> "not found"]
    /\ io.read = "ok"
    /\ FailedAs("GetRequest")
    /\ result.err.kind.status = 404
    /\ result.err.kind.body = "not found"

\* C2: an envelope of a user-classified kind never holds a captured
\* backtrace, and an envelope of an internal-classified kind always holds a
\* non-empty one.
C2_ContextOnlyForInternal ==
    Failed =>
        /\ result.err.kind.variant \in UserClassified
              => result.err.backtrace = <<>>
        /\ result.err.kind.variant \in InternalClassified
              => result.err.backtrace # <<>>

\* C3: a timeout expiring at any point of the call (while sending, or while
\* reading the body of an error response or of a success response) surfaces
\* as SendRequest.
C3_TimeoutIsSendRequest ==
    (pc = "done" /\ (io.send = "timeout" \/ io.read = "timeout"))
        => FailedAs("SendRequest")

\* a step of the program, as C4 wants it
C4_Step ==
    IF result'.tag = "Err" /\ result' # result
    THEN LET err == result'.err
             event == log'[Len(log')]
         IN  /\ Len(log') = Len(log) + 1
             /\ SubSeq(log', 1, Len(log)) = log
             /\ event.level = "ERROR"
             /\ event.id = err.id
             /\ event.kind = err.kind
             /\ ("backtrace" \in DOMAIN event)
                    <=> (err.kind.variant \in InternalClassified)
             /\ ("backtrace" \in DOMAIN event) => event.backtrace = err.backtrace
    ELSE log' = log

\* C4: every step that brings an envelope into existence appends exactly one
\* error-level event with the id and kind of that envelope, with the
\* backtrace exactly when the kind is internal-classified; no other step
\* touches the log.
C4_EveryEnvelopeLogged == [][C4_Step]_vars

C4_Witness ==
    /\ Len(log) = 2
    /\ "backtrace" \in DOMAIN log[1]
    /\ FailedAs("NoActiveTrack")
    /\ log[2] = [level |-> "ERROR", id |-> result.err.id, kind |-> NoActiveTrack]

\* C5: a 200 response whose body does not deserialize as T makes the call
\* fail with UnexpectedJsonShape wrapping the deserialization error.
C5_BadJsonGivesShape ==
    (Responded /\ res.status = 200 /\ io.read = "ok" /\ res.body \notin MatchesT)
        => /\ FailedAs("UnexpectedJsonShape")
           /\ result.err.kind.source.inner_kind = "Decode"
           /\ SourceOf(result.err.kind) = "serde_json::Error"

C5_Witness ==
    /\ Responded
    /\ res = [status |-> 200, body |-> "[]"]
    /\ io.read = "ok"
    /\ FailedAs("UnexpectedJsonShape")

\* C6: when the request cannot be sent or completed the call fails with
\* SendRequest wrapping the cause, and has neither looked at a status nor
\* read a body nor deserialized anything.
C6_SendFailureGivesSendRequest ==
    (pc = "done" /\ io.send # "ok") =>
        /\ Failed
        /\ FailedAs("SendRequest")
        /\ result.err.kind.source.inner_kind = "Request"
        /\ result.err.kind.source.inner_url = <<req_url>>
        /\ SourceOf(result.err.kind)
              = (IF io.send = "timeout" THEN "TimedOut" ELSE "hyper::Error")
        /\ steps = {"send"}
        /\ res = NoResponse
        /\ io.read = "none"

C6_Witness ==
    /\ pc = "done"
    /\ io.send = "connect"
    /\ FailedAs("SendRequest")

\* C7: a 200 response whose body is a JSON document of type T makes the call
\* return Ok with the parsed value, and the call constructs no envelope and
\* logs nothing.
C7_GoodJsonGivesOk ==
    (Responded /\ res.status = 200 /\ io.read = "ok" /\ res.body \in MatchesT)
        => (result = Ok(ValueOf(res.body)) /\ Len(log) = logMark)

C7_Witness ==
    /\ Responded
    /\ res = [status |-> 200, body |-> "{\"n\":1}"]
    /\ io.read = "ok"
    /\ result = Ok([n |-> 1])
    /\ Len(log) = 1

\* the embed C8 expects of an envelope, and a step as C8 wants it
C8_Embed(err) ==
    [title |-> title(err.kind),
     description |-> kind_display(err.kind) \o "\n\nError id: **'" \o err.id
                        \o "'**\n\n'''\n" \o kind_debug(err.kind) \o "\n'''",
     color |-> <<167, 14, 37>>]

C8_Step ==
    Len(rendered') > Len(rendered) =>
        /\ result' = result
        /\ log' = log
        /\ \A i \in 1..Len(rendered') : rendered'[i] = C8_Embed(result.err)
        /\ \A i, j \in 1..Len(rendered') : rendered'[i] = rendered'[j]

\* C8: every rendering of an envelope yields the same embed, whose title is
\* the title of the kind and whose body is the display sentence, the id and
\* the debug dump of the kind; rendering changes neither the envelope nor
\* the log.
C8_RenderIsPure == [][C8_Step]_vars

C8_Witness ==
    /\ Len(rendered) = 2
    /\ rendered[1] = rendered[2]
    /\ FailedAs("GetRequest")
    /\ rendered[2].title = "HTTP error"

\* C9 as stated: a shape failure is produced only for a 2xx response, and a
\* 1xx or 3xx response is neither a shape failure nor a success value.
C9_ShapeOnlyFor2xx ==
    Responded =>
        /\ FailedAs("UnexpectedJsonShape")
              => (200 <= res.status /\ res.status <= 299)
        /\ (res.status <= 199 \/ (300 <= res.status /\ res.status <= 399))
              => (result.tag # "Ok" /\ ~FailedAs("UnexpectedJsonShape"))

\* C9 as amended: a shape failure is produced only for a response whose
\* status is not 4xx/5xx, and a 1xx or 3xx response is handled as a 2xx one:
\* a success value when its body is a document of type T, a shape failure
\* otherwise.
C9_ShapeOnlyForNonError ==
    /\ FailedAs("UnexpectedJsonShape") =>
          (Responded /\ ~(400 <= res.status /\ res.status <= 599))
    /\ (Responded /\ 100 <= res.status /\ res.status <= 399) =>
          IF io.read = "ok" /\ res.body \in MatchesT
          THEN result = Ok(ValueOf(res.body))
          ELSE FailedAs("UnexpectedJsonShape")

C9_Witness ==
    /\ Responded
    /\ res.status = 304
    /\ io.read = "ok"
    /\ FailedAs("UnexpectedJsonShape")

\* the call met one of the failures the function checks for
C10_CallFailed ==
    \/ io.send # "ok"
    \/ 400 <= res.status /\ res.status <= 599
    \/ io.read # "ok"
    \/ res.body \notin MatchesT

\* C10: a call issues one GET request at most; a failed call has returned
\* its error without a retry or a fallback value, having built exactly one
\* envelope and logged exactly one event.
C10_OneRequestOneEnvelope ==
    /\ sent <= 1
    /\ pc \in {"send", "text", "json"} => (sent = 1 /\ Len(log) = logMark)
    /\ pc = "done" => sent = 1
    /\ (pc = "done" /\ C10_CallFailed) =>
          /\ Failed
          /\ Len(log) = logMark + 1
          /\ log[Len(log)].id = result.err.id
          /\ log[Len(log)].kind = result.err.kind
    /\ (pc = "done" /\ Failed) => C10_CallFailed

C10_Witness ==
    /\ pc = "done"
    /\ io.send = "ok"
    /\ res.status = 500
    /\ io.read = "body"
    /\ Failed
    /\ sent = 1
    /\ logMark = 1
    /\ Len(log) = 2

====
